---- MODULE Spec2Model ----
(***************************************************************************)
(* Model of src/index.js: a LINE webhook served by Express.  One request   *)
(* passes the signature middleware, reaches the POST /default/webhook      *)
(* route, and its events are mapped through the async function handleEvent *)
(* and joined with Promise.all.                                            *)
(***************************************************************************)
EXTENDS Integers, Sequences, FiniteSets, TLC

\* ---- bounds ----
MaxBatch == 2
MaxToken == 2

\* ---- inputs ----
Tokens == 1..MaxToken

\* the message.type values the switch of handleEvent names
KnownMessageTypes ==
  {"text", "image", "video", "audio", "file", "location", "sticker"}

\* message.type values; "contact" and "flex" are values outside the switch
MessageTypes == KnownMessageTypes \cup {"contact", "flex"}

\* event.message is undefined
NoMessage ==
  [present |-> FALSE, type |-> "", text |-> "", fileName |-> "",
   address |-> "", packageId |-> "", stickerId |-> ""]

\* event.message as the platform sends it for each content kind
Message(t) ==
  [present |-> TRUE, type |-> t,
   text |-> IF t = "text" THEN "hello" ELSE "",
   fileName |-> IF t = "file" THEN "a.pdf" ELSE "",
   address |-> IF t = "location" THEN "Bangkok" ELSE "",
   packageId |-> IF t = "sticker" THEN "1" ELSE "",
   stickerId |-> IF t = "sticker" THEN "2" ELSE ""]

\* an element of req.body.events that is null
NullEvent ==
  [isNull |-> TRUE, type |-> "", message |-> NoMessage, replyToken |-> 0]

Events ==
  {NullEvent}
  \cup [isNull : {FALSE}, type : {"follow", "postback"},
        message : {NoMessage}, replyToken : Tokens]
  \cup [isNull : {FALSE}, type : {"message"},
        message : {NoMessage} \cup {Message(t) : t \in MessageTypes},
        replyToken : Tokens]

Batches == UNION {[1..n -> Events] : n \in 0..MaxBatch}

\* what lineMiddleware passes to its callback: "" for no error
AuthErrors == {"", "no signature", "signature validation failed"}

\* req.body.events: absent, an array, or a truthy value that is not an array
\* and whose length is not 0 (for instance the object {"a": 1})
\* A GET / carries no body; a POST /default/webhook carries req.body.events.
Requests ==
  [method : {"GET"}, auth : AuthErrors, evField : {"absent"}, events : {<< >>}]
  \cup [method : {"POST"}, auth : AuthErrors, evField : {"absent"},
         events : {<< >>}]
  \cup [method : {"POST"}, auth : AuthErrors, evField : {"array"},
         events : Batches]
  \cup [method : {"POST"}, auth : AuthErrors, evField : {"object"},
         events : {<< >>}]

NoRequest ==
  [method |-> "", auth |-> "", evField |-> "absent", events |-> << >>]

\* process.env.CHANNEL_SECRET / CHANNEL_ACCESS_TOKEN: not defined, the empty
\* string, or a value
EnvValues == {"undefined", "empty", "value"}

\* !x for an environment value
Falsy(v) == v \in {"undefined", "empty"}

LineConfigs == [channelSecret : EnvValues, channelAccessToken : EnvValues]

\* before new Client(lineConfig)
NoClient == [created |-> FALSE, channelAccessToken |-> "undefined"]
\* new Client(lineConfig)
Client(config) ==
  [created |-> TRUE, channelAccessToken |-> config.channelAccessToken]

\* ---- values ----
Null == [kind |-> "null", token |-> 0]
Receipt(tok) == [kind |-> "receipt", token |-> tok]
TypeError == [kind |-> "TypeError", token |-> 0]

Pending == [state |-> "pending", value |-> Null]
Fulfilled(v) == [state |-> "fulfilled", value |-> v]
Rejected(e) == [state |-> "rejected", value |-> e]

\* ---- responses ----
Response(code, send, message, error, status, hasResult, result) ==
  [code |-> code, send |-> send, message |-> message, error |-> error,
   status |-> status, hasResult |-> hasResult, result |-> result,
   channelSecret |-> "", channelAccessToken |-> ""]

\* res.status(401).json({message: 'Unauthorized', error: err.message})
Unauthorized(err) ==
  Response(401, "json", "Unauthorized", err, "", FALSE, << >>)
\* res.status(200).send('OK')
SendOK == Response(200, "OK", "", "", "", FALSE, << >>)
\* res.status(200).json({status: 'success', result})
JsonSuccess(result) == Response(200, "json", "", "", "success", TRUE, result)
\* res.status(200).json({status: 'error'})
JsonError == Response(200, "json", "", "", "error", FALSE, << >>)
\* res.status(200).json({status: 'LINE Bot is running ...', config: {...}})
Health(config) ==
  [code |-> 200, send |-> "json", message |-> "", error |-> "",
   status |-> "running", hasResult |-> FALSE, result |-> << >>,
   channelSecret |-> IF Falsy(config.channelSecret) THEN "Not set" ELSE "Set",
   channelAccessToken |->
     IF Falsy(config.channelAccessToken) THEN "Not set" ELSE "Set"]
\* the route handler threw synchronously: Express answers 500
ServerError == Response(500, "html", "", "", "", FALSE, << >>)

VARIABLES lineConfig, client, pc, req, h, d, calls, allPromise, res

vars == <<lineConfig, client, pc, req, h, d, calls, allPromise, res>>

\* ---- handleEvent ----

\* the switch without its default branch: replyText keeps its initial ''
ReplyText_NoDefault(message) ==
  CASE message.type = "text" ->
         <<"Text: your message is \"", message.text, "\"">>
    [] message.type = "image" -> <<"Image">>
    [] message.type = "video" -> <<"Video">>
    [] message.type = "audio" -> <<"Audio">>
    [] message.type = "file" -> <<"File, name: ", message.fileName>>
    [] message.type = "location" -> <<"Location, address: ", message.address>>
    [] message.type = "sticker" ->
         <<"Sticker, Package ID: ", message.packageId,
           ", Sticker ID: ", message.stickerId>>
    [] OTHER -> <<"">>

\* the switch over message.type: the reply text as its pieces
ReplyText(message) ==
  CASE message.type = "text" ->
         <<"Text: your message is \"", message.text, "\"">>
    [] message.type = "image" -> <<"Image">>
    [] message.type = "video" -> <<"Video">>
    [] message.type = "audio" -> <<"Audio">>
    [] message.type = "file" -> <<"File, name: ", message.fileName>>
    [] message.type = "location" -> <<"Location, address: ", message.address>>
    [] message.type = "sticker" ->
         <<"Sticker, Package ID: ", message.packageId,
           ", Sticker ID: ", message.stickerId>>
    [] OTHER -> <<"\"", message.type, "\" is not supported yet">>

ReplyMessage(message) == [type |-> "text", text |-> ReplyText(message)]

\* handleEvent without the check of event.type
HandleEvent_NoTypeCheck(event) ==
  IF event.isNull
    THEN [promise |-> Rejected(TypeError), call |-> << >>]
  ELSE IF ~event.message.present
    THEN [promise |-> Rejected(TypeError), call |-> << >>]
  ELSE [promise |-> Pending,
        call |-> <<[token |-> event.replyToken,
                    message |-> ReplyMessage(event.message)]>>]

\* handleEvent up to its first suspension: the promise it returns and the
\* arguments of the client.replyMessage call it made, if any
HandleEvent(event) ==
  IF event.isNull
    THEN [promise |-> Rejected(TypeError), call |-> << >>]
  ELSE IF event.type # "message"
    THEN [promise |-> Fulfilled(Null), call |-> << >>]
  ELSE IF ~event.message.present
    THEN [promise |-> Rejected(TypeError), call |-> << >>]
  ELSE [promise |-> Pending,
        call |-> <<[token |-> event.replyToken,
                    message |-> ReplyMessage(event.message)]>>]

\* every handler replying with the replyToken of the first event
RECURSIVE MapCalls_FirstToken(_, _)
MapCalls_FirstToken(events, i) ==
  IF i > Len(events) THEN << >>
  ELSE LET c == HandleEvent(events[i]).call
       IN (IF c = << >> THEN << >>
           ELSE <<[event |-> i, token |-> events[1].replyToken,
                   message |-> c[1].message]>>)
          \o MapCalls_FirstToken(events, i + 1)

\* a map that stops at the first handler that throws
RECURSIVE MapCalls_StopAtThrow(_, _)
MapCalls_StopAtThrow(events, i) ==
  IF i > Len(events) THEN << >>
  ELSE IF HandleEvent(events[i]).promise.state = "rejected" THEN << >>
  ELSE LET c == HandleEvent(events[i]).call
       IN (IF c = << >> THEN << >>
           ELSE <<[event |-> i, token |-> c[1].token,
                   message |-> c[1].message]>>)
          \o MapCalls_StopAtThrow(events, i + 1)

\* the client.replyMessage calls made by events.map(handleEvent), in order
RECURSIVE MapCalls(_, _)
MapCalls(events, i) ==
  IF i > Len(events) THEN << >>
  ELSE LET c == HandleEvent(events[i]).call
       IN (IF c = << >> THEN << >>
           ELSE <<[event |-> i, token |-> c[1].token,
                   message |-> c[1].message]>>)
          \o MapCalls(events, i + 1)

\* ---- Promise.all ----
PromiseAll(promises) ==
  IF \E i \in DOMAIN promises : promises[i].state = "rejected" THEN "rejected"
  ELSE IF \A i \in DOMAIN promises : promises[i].state = "fulfilled"
    THEN "fulfilled"
  ELSE "pending"

Values(promises) == [i \in DOMAIN promises |-> promises[i].value]

\* ---- the state machine ----
Init ==
  /\ lineConfig \in LineConfigs
  /\ client = NoClient
  /\ pc = "load"
  /\ req = NoRequest
  /\ h = << >>
  /\ d = << >>
  /\ calls = << >>
  /\ allPromise = "none"
  /\ res = << >>

\* a startup without the check of the two environment variables
Startup_NoCheck ==
  /\ pc = "load"
  /\ client' = Client(lineConfig)
  /\ pc' = "idle"
  /\ UNCHANGED <<lineConfig, req, h, d, calls, allPromise, res>>

\* module load: read the environment, refuse to start without both secrets,
\* create the app and the client
Startup ==
  /\ pc = "load"
  /\ IF Falsy(lineConfig.channelSecret) \/ Falsy(lineConfig.channelAccessToken)
       THEN /\ pc' = "crashed"
            /\ client' = client
       ELSE /\ pc' = "idle"
            /\ client' = Client(lineConfig)
  /\ UNCHANGED <<lineConfig, req, h, d, calls, allPromise, res>>

\* a request arrives
Receive ==
  /\ pc = "idle"
  /\ \E r \in Requests : req' = r
  /\ pc' = "middleware"
  /\ UNCHANGED <<h, d, calls, allPromise, res>>
  /\ UNCHANGED <<lineConfig, client>>

\* the wrapper without its return: next() is called after the 401 as well
Middleware_CallsNext ==
  /\ pc = "middleware"
  /\ IF req.auth # ""
       THEN /\ res' = Append(res, Unauthorized(req.auth))
            /\ pc' = "route"
       ELSE /\ res' = res
            /\ pc' = "route"
  /\ UNCHANGED <<req, h, d, calls, allPromise>>
  /\ UNCHANGED <<lineConfig, client>>

\* app.use: the wrapper around lineMiddleware
Middleware ==
  /\ pc = "middleware"
  /\ IF req.auth # ""
       THEN /\ res' = Append(res, Unauthorized(req.auth))
            /\ pc' = "end"
       ELSE /\ res' = res
            /\ pc' = "route"
  /\ UNCHANGED <<req, h, d, calls, allPromise>>
  /\ UNCHANGED <<lineConfig, client>>

\* app.get('/')
GetRoot ==
  /\ pc = "route"
  /\ req.method = "GET"
  /\ res' = Append(res, Health(lineConfig))
  /\ pc' = "end"
  /\ UNCHANGED <<lineConfig, client, req, h, d, calls, allPromise>>

\* the route handler testing only !req.body.events
PostWebhook_NoLengthCheck ==
  /\ pc = "route"
  /\ req.method = "POST"
  /\ IF req.evField = "absent"
       THEN /\ res' = Append(res, SendOK)
            /\ pc' = "end"
            /\ UNCHANGED <<h, d, calls, allPromise>>
     ELSE IF req.evField # "array"
       THEN \* events.map is not a function
            /\ res' = Append(res, ServerError)
            /\ pc' = "end"
            /\ UNCHANGED <<h, d, calls, allPromise>>
     ELSE /\ h' = [i \in 1..Len(req.events) |-> HandleEvent(req.events[i]).promise]
          /\ d' = [i \in 1..Len(req.events) |->
                     IF HandleEvent(req.events[i]).call = << >>
                       THEN "none" ELSE "pending"]
          /\ calls' = calls \o MapCalls(req.events, 1)
          /\ allPromise' = "pending"
          /\ pc' = "dispatched"
          /\ res' = res
  /\ UNCHANGED req
  /\ UNCHANGED <<lineConfig, client>>

\* app.post('/default/webhook'): the synchronous part of the route handler
PostWebhook ==
  /\ pc = "route"
  /\ req.method = "POST"
  /\ IF req.evField = "absent" \/ (req.evField = "array" /\ Len(req.events) = 0)
       THEN /\ res' = Append(res, SendOK)
            /\ pc' = "end"
            /\ UNCHANGED <<h, d, calls, allPromise>>
     ELSE IF req.evField # "array"
       THEN \* events.map is not a function
            /\ res' = Append(res, ServerError)
            /\ pc' = "end"
            /\ UNCHANGED <<h, d, calls, allPromise>>
     ELSE /\ h' = [i \in 1..Len(req.events) |-> HandleEvent(req.events[i]).promise]
          /\ d' = [i \in 1..Len(req.events) |->
                     IF HandleEvent(req.events[i]).call = << >>
                       THEN "none" ELSE "pending"]
          /\ calls' = calls \o MapCalls(req.events, 1)
          /\ allPromise' = "pending"
          /\ pc' = "dispatched"
          /\ res' = res
  /\ UNCHANGED req
  /\ UNCHANGED <<lineConfig, client>>

\* the promise returned by client.replyMessage for event i settles
DeliverySettle(i) ==
  /\ pc = "dispatched"
  /\ i \in DOMAIN h
  /\ d[i] = "pending"
  /\ \E answer \in {"ok", "err"} : d' = [d EXCEPT ![i] = answer]
  /\ UNCHANGED <<pc, req, h, calls, allPromise, res>>
  /\ UNCHANGED <<lineConfig, client>>

\* a handler that sends the reply once more when the delivery rejected
HandlerResume_Retry(i) ==
  /\ pc = "dispatched"
  /\ i \in DOMAIN h
  /\ h[i].state = "pending"
  /\ d[i] \in {"ok", "err"}
  /\ IF d[i] = "err" /\ Cardinality({k \in DOMAIN calls : calls[k].event = i}) < 2
       THEN /\ calls' = Append(calls, [event |-> i,
                                       token |-> req.events[i].replyToken,
                                       message |-> ReplyMessage(req.events[i].message)])
            /\ d' = [d EXCEPT ![i] = "pending"]
            /\ h' = h
       ELSE /\ h' = [h EXCEPT ![i] =
                       IF d[i] = "ok"
                         THEN Fulfilled(Receipt(req.events[i].replyToken))
                         ELSE Fulfilled(Null)]
            /\ UNCHANGED <<d, calls>>
  /\ UNCHANGED <<pc, req, allPromise, res>>
  /\ UNCHANGED <<lineConfig, client>>

\* a handler whose catch block is shared: it returns null as soon as the
\* delivery of any event of the batch has rejected
HandlerResume_SharedError(i) ==
  /\ pc = "dispatched"
  /\ i \in DOMAIN h
  /\ h[i].state = "pending"
  /\ d[i] \in {"ok", "err"}
  /\ h' = [h EXCEPT ![i] =
             IF \A j \in DOMAIN d : d[j] # "err"
               THEN Fulfilled(Receipt(req.events[i].replyToken))
               ELSE Fulfilled(Null)]
  /\ UNCHANGED <<pc, req, d, calls, allPromise, res>>
  /\ UNCHANGED <<lineConfig, client>>

\* a handler that drops the client's access token when a delivery rejected
HandlerResume_ResetsClient(i) ==
  /\ pc = "dispatched"
  /\ i \in DOMAIN h
  /\ h[i].state = "pending"
  /\ d[i] \in {"ok", "err"}
  /\ h' = [h EXCEPT ![i] =
             IF d[i] = "ok" THEN Fulfilled(Receipt(req.events[i].replyToken))
             ELSE Fulfilled(Null)]
  /\ client' = IF d[i] = "err"
                THEN [client EXCEPT !.channelAccessToken = "undefined"]
                ELSE client
  /\ UNCHANGED <<pc, req, d, calls, allPromise, res>>
  /\ UNCHANGED lineConfig

\* handleEvent resumes after its await: return the receipt, or catch and
\* return null
HandlerResume(i) ==
  /\ pc = "dispatched"
  /\ i \in DOMAIN h
  /\ h[i].state = "pending"
  /\ d[i] \in {"ok", "err"}
  /\ h' = [h EXCEPT ![i] =
             IF d[i] = "ok" THEN Fulfilled(Receipt(req.events[i].replyToken))
             ELSE Fulfilled(Null)]
  /\ UNCHANGED <<pc, req, d, calls, allPromise, res>>
  /\ UNCHANGED <<lineConfig, client>>

\* a then callback that logs and sends nothing
ThenCallback_NoResponse ==
  /\ pc = "dispatched"
  /\ allPromise = "pending"
  /\ PromiseAll(h) = "fulfilled"
  /\ allPromise' = "fulfilled"
  /\ UNCHANGED <<pc, req, h, d, calls, res>>
  /\ UNCHANGED <<lineConfig, client>>

\* a then callback that reports the outcomes in reverse order
ThenCallback_Reversed ==
  /\ pc = "dispatched"
  /\ allPromise = "pending"
  /\ PromiseAll(h) = "fulfilled"
  /\ allPromise' = "fulfilled"
  /\ res' = Append(res, JsonSuccess([i \in DOMAIN h |->
                                       h[Len(h) + 1 - i].value]))
  /\ UNCHANGED <<pc, req, h, d, calls>>
  /\ UNCHANGED <<lineConfig, client>>

\* .then((result) => ...)
ThenCallback ==
  /\ pc = "dispatched"
  /\ allPromise = "pending"
  /\ PromiseAll(h) = "fulfilled"
  /\ allPromise' = "fulfilled"
  /\ res' = Append(res, JsonSuccess(Values(h)))
  /\ UNCHANGED <<pc, req, h, d, calls>>
  /\ UNCHANGED <<lineConfig, client>>

\* a catch callback that reports the failure with a 500
CatchCallback_ServerError ==
  /\ pc = "dispatched"
  /\ allPromise = "pending"
  /\ PromiseAll(h) = "rejected"
  /\ allPromise' = "rejected"
  /\ res' = Append(res, [JsonError EXCEPT !.code = 500])
  /\ UNCHANGED <<pc, req, h, d, calls>>
  /\ UNCHANGED <<lineConfig, client>>

\* .catch((err) => ...)
CatchCallback ==
  /\ pc = "dispatched"
  /\ allPromise = "pending"
  /\ PromiseAll(h) = "rejected"
  /\ allPromise' = "rejected"
  /\ res' = Append(res, JsonError)
  /\ UNCHANGED <<pc, req, h, d, calls>>
  /\ UNCHANGED <<lineConfig, client>>

\* the invocation is over: the request, its response and the promises of its
\* handlers are dropped, and the process waits for the next request
Done ==
  /\ \/ pc = "end"
     \/ pc = "dispatched" /\ allPromise \in {"fulfilled", "rejected"}
  /\ pc' = "idle"
  /\ req' = NoRequest
  /\ h' = << >>
  /\ d' = << >>
  /\ calls' = << >>
  /\ allPromise' = "none"
  /\ res' = << >>
  /\ UNCHANGED <<lineConfig, client>>

Next ==
  \/ Startup
  \/ Receive
  \/ Middleware
  \/ GetRoot
  \/ PostWebhook
  \/ \E i \in DOMAIN d : DeliverySettle(i)
  \/ \E i \in DOMAIN h : HandlerResume(i)
  \/ ThenCallback
  \/ CatchCallback
  \/ Done

Spec == Init /\ [][Next]_vars

\* The event loop runs every callback that is ready; the fairness of
\* DeliverySettle is the assumption that every delivery call started settles.
Fairness ==
  /\ WF_vars(Middleware)
  /\ WF_vars(GetRoot)
  /\ WF_vars(PostWebhook)
  /\ WF_vars(ThenCallback)
  /\ WF_vars(CatchCallback)
  /\ \A i \in 1..MaxBatch :
       WF_vars(DeliverySettle(i)) /\ WF_vars(HandlerResume(i))

FairSpec == Spec /\ Fairness

TypeOK ==
  /\ pc \in {"load", "crashed", "idle", "middleware", "route", "dispatched",
            "end"}
  /\ req \in Requests \cup {NoRequest}
  /\ lineConfig \in LineConfigs
  /\ allPromise \in {"none", "pending", "fulfilled", "rejected"}
  /\ Len(h) = Len(d)

\* ---- properties ----

\* C1: in a batch of N >= 1 events of an authenticated POST, when the
\* reply-delivery call of one message event rejects, the response is 200
\* with status "success", the failed event's outcome is null and every other
\* event's outcome is the one its own delivery answer gives it.
C1_DeliveryFailureIsolated ==
  (pc = "dispatched" /\ res # << >> /\ \E j \in DOMAIN d : d[j] = "err")
    => /\ res[1].code = 200
       /\ res[1].status = "success"
       /\ Len(res[1].result) = Len(req.events)
       /\ \A i \in DOMAIN res[1].result :
            res[1].result[i] =
              IF d[i] = "ok" THEN Receipt(req.events[i].replyToken) ELSE Null

\* C2: the response of a dispatch is sent only after every event's handler
\* has settled: once it is sent no handleEvent promise and no reply-delivery
\* call is pending.
C2_ResponseAfterAllSettled ==
  (pc = "dispatched" /\ res # << >>)
    => \A i \in DOMAIN h : h[i].state # "pending" /\ d[i] # "pending"

\* C3: handleEvent never raises: the promise it returns is never rejected,
\* whatever the event.
C3_HandleEventNeverRejects ==
  \A i \in DOMAIN h : h[i].state # "rejected"

\* C4: a malformed event (null, or a message event without message) gives a
\* failed outcome for that event only: the response still carries one
\* outcome per event, and the outcomes of the other events are the ones
\* their own delivery answers give them.
C4_MalformedEventIsolated ==
  (/\ pc = "dispatched"
   /\ res # << >>
   /\ \E j \in DOMAIN req.events :
        \/ req.events[j].isNull
        \/ req.events[j].type = "message" /\ ~req.events[j].message.present)
    => /\ res[1].hasResult
       /\ Len(res[1].result) = Len(req.events)
       /\ \A i \in DOMAIN res[1].result :
            HandleEvent(req.events[i]).promise.state # "rejected"
              => res[1].result[i] = h[i].value

\* C5 as stated: every response to an authenticated POST has status 200,
\* whatever the events field holds.
C5_AlwaysSuccessStatus ==
  (req.method = "POST" /\ req.auth = "" /\ res # << >>) => res[1].code = 200

\* C5 amended: an authenticated POST whose events field is absent or an
\* array is answered with 200: once the route handler has returned without
\* dispatching, or the joined promise has settled, exactly one response has
\* been sent, and every response sent has status 200.
C5_SuccessStatusForArrays ==
  (req.method = "POST" /\ req.auth = "" /\ req.evField \in {"absent", "array"})
    => /\ \A k \in DOMAIN res : res[k].code = 200
       /\ (pc = "end" \/ allPromise \in {"fulfilled", "rejected"})
            => Len(res) = 1

\* a handler rejected outside its error boundary and the batch was answered
C5_Witness ==
  /\ req.method = "POST"
  /\ req.auth = ""
  /\ allPromise = "rejected"
  /\ \E i \in DOMAIN h : h[i].state = "rejected"
  /\ \E i \in DOMAIN d : d[i] = "err"
  /\ Len(res) = 1
  /\ res[1].status = "error"

\* C6: a request that fails authentication is answered with 401 and a
\* {message, error} body; handleEvent is never invoked and no reply-delivery
\* call is made for it.
C6_UnauthorizedNoDispatch ==
  (req.auth # "" /\ pc \notin {"load", "crashed", "idle", "middleware"})
    => /\ pc = "end"
       /\ Len(res) = 1
       /\ res[1].code = 401
       /\ res[1].send = "json"
       /\ res[1].message = "Unauthorized"
       /\ res[1].error = req.auth
       /\ ~res[1].hasResult
       /\ res[1].status = ""
       /\ Len(h) = 0
       /\ calls = << >>
       /\ allPromise = "none"

\* a rejected request whose body carries a well-formed message event
C6_Witness ==
  /\ req.auth # ""
  /\ pc = "end"
  /\ \E i \in DOMAIN req.events :
       req.events[i].type = "message" /\ req.events[i].message.present
  /\ Len(res) = 1

\* C7: for an event whose type is not "message" handleEvent fulfils with
\* null and makes no reply-delivery call.
C7_NonMessageSkipped ==
  \A i \in DOMAIN h :
    (~req.events[i].isNull /\ req.events[i].type # "message")
      => /\ h[i] = Fulfilled(Null)
         /\ d[i] = "none"
         /\ \A k \in DOMAIN calls : calls[k].event # i

\* a skipped event next to a message event whose reply was sent
C7_Witness ==
  /\ pc = "dispatched"
  /\ \E i \in DOMAIN h : req.events[i].type = "follow"
  /\ \E i \in DOMAIN h : req.events[i].type = "postback"
  /\ allPromise = "fulfilled"

\* C8 as stated: no replyToken value is passed to the reply-delivery client
\* more than once during one request.
C8_TokenUsedOnce ==
  \A a, b \in DOMAIN calls : a # b => calls[a].token # calls[b].token

\* C8 amended: a replyToken value is passed to the reply-delivery client as
\* many times as there are well-formed message events carrying it in the
\* batch, hence at most once when those events carry distinct tokens.
C8_TokenUsedOncePerEvent ==
  pc = "dispatched"
    => \A t \in Tokens :
         Cardinality({k \in DOMAIN calls : calls[k].token = t})
           = Cardinality({i \in DOMAIN req.events :
                            /\ req.events[i].type = "message"
                            /\ req.events[i].message.present
                            /\ req.events[i].replyToken = t})

\* two message events with distinct tokens, one delivery rejected
C8_Witness ==
  /\ pc = "dispatched"
  /\ Len(calls) = 2
  /\ calls[1].token # calls[2].token
  /\ calls[1].token = req.events[1].replyToken
  /\ calls[2].token = req.events[2].replyToken
  /\ d[1] = "err"
  /\ res # << >>

\* C9: one invocation of handleEvent makes exactly one reply-delivery call
\* for a well-formed message event and none otherwise, also after the
\* delivery has rejected.
C9_OneCallPerInvocation ==
  \A i \in DOMAIN h :
    Cardinality({k \in DOMAIN calls : calls[k].event = i})
      = IF /\ ~req.events[i].isNull
           /\ req.events[i].type = "message"
           /\ req.events[i].message.present
          THEN 1 ELSE 0

\* a delivery rejected and its handler returned null
C9_Witness ==
  /\ pc = "dispatched"
  /\ \E i \in DOMAIN h :
       /\ d[i] = "err"
       /\ h[i] = Fulfilled(Null)
       /\ Cardinality({k \in DOMAIN calls : calls[k].event = i}) = 1

\* C10: an authenticated POST without events field or with an empty events
\* array is answered with 200 "OK" by the route handler itself; handleEvent
\* is not invoked and no reply-delivery call is made.
C10_EmptyBatchAcknowledged ==
  (/\ req.method = "POST"
   /\ req.auth = ""
   /\ req.evField = "absent" \/ (req.evField = "array" /\ Len(req.events) = 0)
   /\ pc \notin {"idle", "middleware", "route"})
    => /\ pc = "end"
       /\ Len(res) = 1
       /\ res[1].code = 200
       /\ res[1].send = "OK"
       /\ Len(h) = 0
       /\ calls = << >>
       /\ allPromise = "none"

\* an empty events array was acknowledged
C10_Witness ==
  /\ req.auth = ""
  /\ req.evField = "array"
  /\ Len(req.events) = 0
  /\ pc = "end"
  /\ Len(res) = 1
  /\ res[1].send = "OK"

\* C11: every GET / is answered with 200 and the health payload, whatever
\* the request authenticator returns for it.
C11_HealthAlwaysOK ==
  (req.method = "GET" /\ res # << >>)
    => /\ res[1].code = 200
       /\ res[1].status = "running"
       /\ res[1].channelSecret \in {"Set", "Not set"}
       /\ res[1].channelAccessToken \in {"Set", "Not set"}

\* C12: for every message event with a message, whatever message.type is,
\* the reply text passed to the client is a non-empty string, and for a
\* type outside the switch it contains the type name itself.
C12_ReplyTextTotal ==
  \A k \in DOMAIN calls :
    LET text == calls[k].message.text
        type == req.events[calls[k].event].message.type
    IN /\ calls[k].message.type = "text"
       /\ \E n \in DOMAIN text : text[n] # ""
       /\ type \notin KnownMessageTypes => \E n \in DOMAIN text : text[n] = type

\* replies were sent for a type outside the switch and for a type inside it
C12_Witness ==
  /\ pc = "dispatched"
  /\ \E k \in DOMAIN calls : req.events[calls[k].event].message.type = "flex"
  /\ \E k \in DOMAIN calls : req.events[calls[k].event].message.type = "sticker"

\* C13: the outcome of an event depends only on the event and on the
\* delivery client's answer for it, not on its position in the batch, on
\* its siblings or on the order in which the deliveries settle. The batches
\* range over all sequences of events, hence over all permutations.
C13_OutcomeOrderIndependent ==
  \A i \in DOMAIN h :
    h[i].state # "pending"
      => h[i] = IF HandleEvent(req.events[i]).promise.state # "pending"
                  THEN HandleEvent(req.events[i]).promise
                ELSE IF d[i] = "ok"
                  THEN Fulfilled(Receipt(req.events[i].replyToken))
                ELSE Fulfilled(Null)

\* two message events, the second settled while the first is pending, and
\* the second got its receipt although the first is going to fail
C13_Witness ==
  /\ pc = "dispatched"
  /\ Len(h) = 2
  /\ d[1] = "err"
  /\ h[1].state = "pending"
  /\ d[2] = "ok"
  /\ h[2] = Fulfilled(Receipt(req.events[2].replyToken))

\* C14: when a secret is absent at startup the process does not start: no
\* request is served, the client is not created. Whenever a request is being
\* served both secrets are configured and no health payload says "Not set".
C14_NoStartWithoutSecrets ==
  /\ (Falsy(lineConfig.channelSecret) \/ Falsy(lineConfig.channelAccessToken))
       => /\ pc \in {"load", "crashed"}
          /\ ~client.created
          /\ res = << >>
  /\ pc \notin {"load", "crashed"}
       => /\ ~Falsy(lineConfig.channelSecret)
          /\ ~Falsy(lineConfig.channelAccessToken)
          /\ client.created
  /\ \A k \in DOMAIN res :
       /\ res[k].channelSecret # "Not set"
       /\ res[k].channelAccessToken # "Not set"

\* a health request was served
C14_Witness ==
  /\ req.method = "GET"
  /\ pc = "end"
  /\ Len(res) = 1
  /\ res[1].channelSecret = "Set"
  /\ res[1].channelAccessToken = "Set"

\* C15: the body of a dispatch response has status "success" exactly when
\* every handler fulfilled, and then its result has one entry per event,
\* entry i being the outcome of event i; otherwise the status is "error" and
\* the body carries no outcomes.
C15_ResponseBody ==
  (pc = "dispatched" /\ res # << >>)
    => IF \A i \in DOMAIN h : h[i].state = "fulfilled"
         THEN /\ res[1].status = "success"
              /\ res[1].hasResult
              /\ Len(res[1].result) = Len(req.events)
              /\ \A i \in DOMAIN h : res[1].result[i] = h[i].value
         ELSE /\ res[1].status = "error"
              /\ ~res[1].hasResult
              /\ res[1].result = << >>

\* a success response whose two outcomes differ
C15_Witness ==
  /\ pc = "dispatched"
  /\ Len(res) = 1
  /\ res[1].status = "success"
  /\ Len(res[1].result) = 2
  /\ res[1].result[1] = Null
  /\ d[1] = "err"
  /\ res[1].result[2] = Receipt(req.events[2].replyToken)

C17_EventuallyAnswered ==
  (/\ pc = "middleware"
   /\ req.method = "POST"
   /\ req.auth = ""
   /\ req.evField = "array"
   /\ Len(req.events) > 0)
    ~> (pc = "dispatched" /\ Len(res) = 1)

\* a batch whose deliveries all settled was answered
C17_Witness ==
  /\ pc = "dispatched"
  /\ Len(res) = 1
  /\ Len(calls) = 2
  /\ \A i \in DOMAIN d : d[i] \in {"ok", "err"}
  /\ \A i \in DOMAIN h : h[i].state = "fulfilled"

\* C18: the delivery calls of a batch are all started, in batch order, by the
\* time the batch is mapped, whether or not a sibling handler rejected, and no
\* delivery call is started once the response has been sent.
C18_CallsStartedBeforeResponse ==
  /\ [](pc = "dispatched" =>
          /\ \A a, b \in DOMAIN calls : a < b => calls[a].event < calls[b].event
          /\ \A i \in DOMAIN req.events :
               (/\ ~req.events[i].isNull
                /\ req.events[i].type = "message"
                /\ req.events[i].message.present)
                 => \E k \in DOMAIN calls : calls[k].event = i)
  /\ [][(res # << >> /\ pc' # "idle") => calls' = calls]_vars

\* a null event first, a message event after it: the reply of the second was
\* started and the batch was answered
C18_Witness ==
  /\ pc = "dispatched"
  /\ Len(req.events) = 2
  /\ req.events[1].isNull
  /\ Len(calls) = 1
  /\ calls[1].event = 2
  /\ res # << >>

\* C19: a request receives at most one response: a settled dispatch has sent
\* exactly one, by the branch that matches the joined promise, and once a
\* response is sent no later step of the request sends another.
C19_AtMostOneResponse ==
  /\ [](Len(res) <= 1)
  /\ [](allPromise = "fulfilled" => Len(res) = 1 /\ res[1].status = "success")
  /\ [](allPromise = "rejected" => Len(res) = 1 /\ res[1].status = "error")
  /\ [][(res # << >> /\ pc' # "idle") => res' = res]_vars

\* the error response was sent and a delivery settled after it
C19_Witness ==
  /\ pc = "dispatched"
  /\ allPromise = "rejected"
  /\ Len(res) = 1
  /\ \E i \in DOMAIN h :
       d[i] = "ok" /\ h[i] = Fulfilled(Receipt(req.events[i].replyToken))
====
